---- MODULE Spec2Model ----
(***************************************************************************)
(* Model of deploy/fabfile.py: launch_instance (security group, instance   *)
(* launch, state polling with tagging, SSH readiness probe, host record)   *)
(* followed by post_launch (the fixed sequence of remote steps).           *)
(***************************************************************************)
EXTENDS Integers, Sequences, FiniteSets, TLC

VARIABLES
    pc,                   \* position in launch_instance / post_launch / current task
    skip_updates,         \* argument of launch_instance
    cloudGroup,           \* cloud side: a security group named security_group_name exists
    security_group_found, \* local of launch_instance
    listings,             \* what each group listing answered: the named group is in it
    calls,                \* number of calls made to each cloud API operation
    instance,             \* [state, public_dns_name] as last fetched; NoInstance before launch
    set_tags,             \* local of launch_instance
    tagLog,               \* result of each create_tags call: TRUE when it succeeded
    iterations,           \* bodies of the "while pending" loop entered so far
    slept,                \* seconds spent in time.sleep by launch_instance
    sshOpts,              \* options of the probe command issued by test_ssh; NoProbe before
    sshLog,               \* results of the connection attempts of the probe's ssh client,
                          \* kept until launch_instance has accepted the probe
    ssh_ret,              \* result of the probe command: "none", "succeeded", "failed"
    hostFile,             \* content of hosts.txt
    hostWrites,           \* number of set_host calls
    host_string,          \* local of launch_instance
    host_string_oracle,   \* local of launch_instance
    error,                \* "none", or the error that ended the run
    plIndex,              \* number of execute(...) statements of post_launch passed
    trace,                \* execute(...) calls made: <<task, host string>>
    completed,            \* tasks that returned
    env_host,             \* fabric env.host_string
    ip,                   \* index of the next command of the current task
    issued,               \* commands issued by the current task
    stepFails,            \* failed warn_only commands of the current task
    prevFailed,           \* a warn_only command of the task before the current one failed
    lastCmd,              \* the remote command issued last, and whether it failed
    oracle_log,           \* local of install_db
    discoverFetches,      \* iterations of the nohup.out loop of install_db
    tailFetches,          \* iterations of the log tailing loop of install_db
    requirements,         \* rows of yum-requirements.txt, each a sequence of fields
    override,             \* the package_list argument yum_install is called with
    package_list,         \* local of yum_install: the list the command is built from
    package,              \* local of yum_install: the loop variable, Unbound if never set
    installArgs,          \* argument text of the install command, token by token
    failing,              \* remote side: the packages yum could not install
    logHasMarker,         \* remote side: the installer log holds the completion marker
    oracle_log_buffer,    \* local of install_db: content of the last fetched log copy
    discoverSlept         \* seconds spent in time.sleep by the nohup.out loop

launchVars == <<skip_updates, cloudGroup, security_group_found, listings, calls,
                instance, set_tags, tagLog, iterations, slept, sshOpts, sshLog, ssh_ret,
                hostFile, hostWrites, host_string, host_string_oracle>>
yumVars == <<requirements, override, package_list, package, installArgs, failing>>
installerVars == <<logHasMarker, oracle_log_buffer, discoverSlept>>
postVars == <<plIndex, trace, completed, env_host, ip, issued, stepFails,
              prevFailed, lastCmd, oracle_log, discoverFetches, tailFetches, yumVars,
              installerVars>>
vars == <<pc, error, launchVars, postVars>>

(***************************************************************************)
(* Bounds of the model.                                                    *)
(***************************************************************************)
MaxPolls == 3        \* instance.update() answers "pending" at most this often
MaxTail == 2         \* log fetches without the completion marker
MaxPkgs == 2         \* length of a package list

(***************************************************************************)
(* Program constants.                                                      *)
(***************************************************************************)
LAUNCH_TIME == 300
PollSleep == 10
ProbeTimeout == 30
ProbeRetryCount == 20
DiscoverAttempts == 6

InstanceStates == {"pending", "running", "terminated"}
DnsNames == {"", "ec2-a"}
NoInstance == [state |-> "none", public_dns_name |-> ""]
NoProbe == [user |-> "", host |-> "", ConnectTimeout |-> 0, ConnectionAttempts |-> 0]
NoHost == <<>>
OldHost == <<"root", "@", "old-host">>
None == "None"

ApiOps == {"get_all_security_groups", "create_security_group", "authorize",
           "run_instances", "create_tags", "update"}

Called(op) == [calls EXCEPT ![op] = @ + 1]

\* "{}@{}".format(user, address)
FormatHost(user, address) == <<user, "@", address>>

Fail(kind) == /\ pc' = "failed"
              /\ error' = kind

(***************************************************************************)
(* launch_instance: security group                                         *)
(***************************************************************************)
\* the group listing: does it hold a group named security_group_name
Listed(groupExists) == groupExists

\* launch_instance lines 401-411
AfterGroupCheck(found) == IF found THEN "run_instances" ELSE "create_security_group"

CheckSecurityGroup ==
    /\ pc = "check_security_group"
    /\ calls' = Called("get_all_security_groups")
    /\ listings' = Append(listings, Listed(cloudGroup))
    /\ security_group_found' = Listed(cloudGroup)
    /\ pc' = AfterGroupCheck(Listed(cloudGroup))
    /\ UNCHANGED <<error, skip_updates, cloudGroup, instance, set_tags, tagLog, iterations,
                   slept, sshOpts, sshLog, ssh_ret, hostFile, hostWrites,
                   host_string, host_string_oracle, postVars>>

\* another operator of the same account creates the group
EnvCreateGroup ==
    /\ pc \in {"check_security_group", "create_security_group", "sg_create"}
    /\ ~cloudGroup
    /\ cloudGroup' = TRUE
    /\ UNCHANGED <<pc, error, skip_updates, security_group_found, listings, calls, instance,
                   set_tags, tagLog, iterations, slept, sshOpts, sshLog, ssh_ret,
                   hostFile, hostWrites, host_string, host_string_oracle, postVars>>

\* create_security_group lines 198-201
ExistingGroupIgnored(listed) == FALSE
ExistingGroupRaises(listed) == listed

create_security_group ==
    /\ pc = "create_security_group"
    /\ calls' = Called("get_all_security_groups")
    /\ listings' = Append(listings, Listed(cloudGroup))
    /\ IF ExistingGroupRaises(Listed(cloudGroup))
       THEN Fail("SecurityGroupExists")
       ELSE /\ pc' = "sg_create"
            /\ error' = error
    /\ UNCHANGED <<skip_updates, cloudGroup, security_group_found, instance, set_tags, tagLog,
                   iterations, slept, sshOpts, sshLog, ssh_ret, hostFile,
                   hostWrites, host_string, host_string_oracle, postVars>>

\* create_security_group line 204; the cloud refuses a duplicate name
sg_create ==
    /\ pc = "sg_create"
    /\ calls' = Called("create_security_group")
    /\ IF cloudGroup
       THEN /\ Fail("EC2ResponseError: create_security_group")
            /\ cloudGroup' = cloudGroup
       ELSE /\ cloudGroup' = TRUE
            /\ pc' = "sg_authorize"
            /\ error' = error
    /\ UNCHANGED <<skip_updates, security_group_found, listings, instance, set_tags,
                   tagLog, iterations, slept, sshOpts, sshLog, ssh_ret, hostFile, hostWrites,
                   host_string, host_string_oracle, postVars>>

\* create_security_group lines 207-208
sg_authorize ==
    /\ pc = "sg_authorize"
    /\ calls' = Called("authorize")
    /\ pc' = IF calls["authorize"] = 1 THEN "run_instances" ELSE "sg_authorize"
    /\ UNCHANGED <<error, skip_updates, cloudGroup, security_group_found, listings,
                   instance, set_tags, tagLog, iterations, slept, sshOpts, sshLog,
                   ssh_ret, hostFile, hostWrites, host_string, host_string_oracle,
                   postVars>>

(***************************************************************************)
(* launch_instance: launch, tagging and state polling                      *)
(***************************************************************************)
\* the instance as the cloud reports it; "pending" is answered a bounded number of times
Reported == {i \in [state : InstanceStates, public_dns_name : DnsNames] :
                i.state = "pending" => calls["update"] < MaxPolls}

RunInstances ==
    /\ pc = "run_instances"
    /\ calls' = Called("run_instances")
    /\ \E i \in Reported : instance' = i
    /\ set_tags' = FALSE
    /\ pc' = "while_pending"
    /\ UNCHANGED <<error, skip_updates, cloudGroup, security_group_found, listings,
                   tagLog, iterations, slept, sshOpts, sshLog, ssh_ret, hostFile, hostWrites,
                   host_string, host_string_oracle, postVars>>

\* line 437
PendingTimesOut(state, passes) == state = "pending" /\ passes < 2
StillPending(state, passes) == state = "pending"

WhilePending ==
    /\ pc = "while_pending"
    /\ IF StillPending(instance.state, iterations)
       THEN /\ pc' = "try_tags"
            /\ iterations' = iterations + 1
       ELSE /\ pc' = "check_running"
            /\ iterations' = iterations
    /\ UNCHANGED <<error, skip_updates, cloudGroup, security_group_found, listings, calls,
                   instance, set_tags, tagLog, slept, sshOpts, sshLog, ssh_ret, hostFile,
                   hostWrites, host_string, host_string_oracle, postVars>>

\* line 439
TagsWantedAlways(tagged) == TRUE
TagsWanted(tagged) == tagged = FALSE

\* lines 440-445: EC2ResponseError is caught and the loop goes on
TaggingErrorUncaught(ok) == IF ok THEN "sleep_update" ELSE "failed"
AfterTagging(ok) == "sleep_update"

TrySetTags ==
    /\ pc = "try_tags"
    /\ IF TagsWanted(set_tags)
       THEN \E ok \in BOOLEAN :
              /\ calls' = Called("create_tags")
              /\ tagLog' = Append(tagLog, ok)
              /\ set_tags' = (set_tags \/ ok)
              /\ pc' = AfterTagging(ok)
              /\ error' = IF AfterTagging(ok) = "failed"
                          THEN "EC2ResponseError: create_tags" ELSE error
       ELSE /\ pc' = "sleep_update"
            /\ UNCHANGED <<calls, set_tags, tagLog, error>>
    /\ UNCHANGED <<skip_updates, cloudGroup, security_group_found, listings, instance,
                   iterations,
                   slept, sshOpts, sshLog, ssh_ret, hostFile, hostWrites,
                   host_string, host_string_oracle, postVars>>

\* lines 448-449
SleepUpdate ==
    /\ pc = "sleep_update"
    /\ slept' = slept + PollSleep
    /\ calls' = Called("update")
    /\ \E i \in Reported : instance' = i
    /\ pc' = "while_pending"
    /\ UNCHANGED <<error, skip_updates, cloudGroup, security_group_found, listings,
                   set_tags, tagLog, iterations, sshOpts, sshLog, ssh_ret, hostFile, hostWrites,
                   host_string, host_string_oracle, postVars>>

\* lines 452-453
AnyStateAccepted(state) == FALSE
NotRunning(state) == state # "running"

CheckRunning ==
    /\ pc = "check_running"
    /\ IF NotRunning(instance.state)
       THEN Fail("InstanceNotRunning")
       ELSE /\ pc' = "flush_known_hosts"
            /\ error' = error
    /\ UNCHANGED <<launchVars, postVars>>

(***************************************************************************)
(* launch_instance: readiness                                              *)
(***************************************************************************)
\* lines 465-470: ssh-keygen -R under warn_only, then the fixed wait
FlushAndWait ==
    /\ pc = "flush_known_hosts"
    /\ slept' = slept + LAUNCH_TIME
    /\ pc' = "test_ssh"
    /\ UNCHANGED <<error, skip_updates, cloudGroup, security_group_found, listings, calls,
                   instance, set_tags, tagLog, iterations, sshOpts, sshLog, ssh_ret,
                   hostFile, hostWrites, host_string, host_string_oracle, postVars>>

\* test_ssh lines 90-94: the options of the one ssh command it runs
test_ssh(user, host, timeout, retry_count) ==
    [user |-> user, host |-> host,
     ConnectTimeout |-> timeout, ConnectionAttempts |-> retry_count]

\* line 473
ProbeCommand(host) == test_ssh("root", host, ProbeTimeout, ProbeRetryCount)

TestSsh ==
    /\ pc = "test_ssh"
    /\ sshOpts' = ProbeCommand(instance.public_dns_name)
    /\ pc' = "ssh_connecting"
    /\ UNCHANGED <<error, skip_updates, cloudGroup, security_group_found, listings, calls,
                   instance, set_tags, tagLog, iterations, slept, sshLog, ssh_ret,
                   hostFile, hostWrites, host_string, host_string_oracle, postVars>>

\* the ssh client: one connection attempt; it ends at the first connection, or when
\* ConnectionAttempts are used up; the command succeeds when the session does
SshResults == {"no_connection", "session_ok", "session_failed"}

SshTriesAll(result, made, opts) == made < opts.ConnectionAttempts
SshRetries(result, made, opts) ==
    result = "no_connection" /\ made < opts.ConnectionAttempts

SshConnect ==
    /\ pc = "ssh_connecting"
    /\ \E result \in SshResults :
         /\ sshLog' = Append(sshLog, result)
         /\ IF SshRetries(result, Len(sshLog) + 1, sshOpts)
            THEN UNCHANGED <<pc, ssh_ret>>
            ELSE /\ ssh_ret' = IF result = "session_ok" THEN "succeeded" ELSE "failed"
                 /\ pc' = "check_ssh"
    /\ UNCHANGED <<error, skip_updates, cloudGroup, security_group_found, listings, calls,
                   instance, set_tags, tagLog, iterations, slept, sshOpts, hostFile,
                   hostWrites, host_string, host_string_oracle, postVars>>

\* lines 474-477
ProbeResultIgnored(ret) == TRUE
Succeeded(ret) == ret = "succeeded"

CheckSsh ==
    /\ pc = "check_ssh"
    /\ IF Succeeded(ssh_ret)
       THEN /\ pc' = "set_host"
            /\ error' = error
            /\ sshLog' = << >>
       ELSE /\ Fail("SshUnreachable")
            /\ sshLog' = sshLog
    /\ UNCHANGED <<skip_updates, cloudGroup, security_group_found, listings, calls, instance,
                   set_tags, tagLog, iterations, slept, sshOpts, ssh_ret, hostFile,
                   hostWrites, host_string, host_string_oracle, postVars>>

\* lines 480-482 with set_host lines 113-118
StaleHostString(user, inst) == OldHost
HostStringFor(user, inst) == FormatHost(user, inst.public_dns_name)

SetHost ==
    /\ pc = "set_host"
    /\ host_string' = HostStringFor("root", instance)
    /\ host_string_oracle' = FormatHost("oracle", instance.public_dns_name)
    /\ hostFile' = HostStringFor("root", instance)
    /\ hostWrites' = hostWrites + 1
    /\ pc' = "post_launch"
    /\ UNCHANGED <<error, skip_updates, cloudGroup, security_group_found, listings, calls,
                   instance, set_tags, tagLog, iterations, slept, sshOpts, sshLog,
                   ssh_ret, postVars>>

(***************************************************************************)
(* Remote commands                                                         *)
(***************************************************************************)
\* mode "warn_only": run_quiet, result not looked at
\* mode "checked":   run_quiet, then "if ret.failed: raise RuntimeError"
\* mode "abort":     a fabric operation outside warn_only (run, upload_template,
\*                   get, reboot): fabric ends the run when it fails
\* mode "exists":    fabric.contrib.files.exists, a warn_only test
Cmd(name, mode, err) == [cmd |-> name, mode |-> mode, err |-> err]
NoCmd == [cmd |-> "", mode |-> "", err |-> "", failed |-> FALSE]
Ran(c, failed) == [cmd |-> c.cmd, mode |-> c.mode, err |-> c.err, failed |-> failed]

\* run_quiet lines 96-104: warn_only, the caller gets the result whatever it is
run_quiet_strict(failed) == IF failed THEN "aborts" ELSE "returns"
run_quiet(failed) == "returns"

\* fabric run / put / get with the default warn_only=False
run(failed) == IF failed THEN "aborts" ELSE "returns"

\* "if ret.failed: raise RuntimeError(...)", lines 136-137, 166-167, 183-184
result_unchecked(failed) == "returns"
raise_if_failed(failed) == IF failed THEN "raises" ELSE "returns"

Outcome(mode, failed) ==
    CASE mode \in {"warn_only", "exists"} -> run_quiet(failed)
      [] mode = "checked" -> IF run_quiet(failed) = "returns"
                             THEN raise_if_failed(failed)
                             ELSE run_quiet(failed)
      [] OTHER -> run(failed)

\* yum_update lines 130-137
yum_update == << Cmd("yum -y makecache", "checked", "YumUpdate") >>

\* yum_install lines 139-167
yum_install_cmds(update_cache) ==
    (IF update_cache THEN yum_update ELSE << >>)
    \o << Cmd("yum -y install", "checked", "YumInstall") >>

\* yum_upgrade lines 169-184
yum_upgrade(update_cache) ==
    (IF update_cache THEN yum_update ELSE << >>)
    \o << Cmd("yum-complete-transaction -y", "warn_only", ""),
          Cmd("package-cleanup --problems", "warn_only", ""),
          Cmd("yum -y --skip-broken upgrade", "checked", "YumUpgrade") >>

\* yum_upgrade_reboot lines 186-191
yum_upgrade_reboot_refreshing == yum_upgrade(TRUE) \o << Cmd("reboot", "abort", "") >>
yum_upgrade_reboot_cmds == yum_upgrade(FALSE) \o << Cmd("reboot", "abort", "") >>

\* enroll_oel lines 211-216
enroll_oel_cmds == << Cmd("upload public-yum-el5.repo", "abort", "") >> \o yum_update

\* resize_root lines 218-222
resize_root_cmds == << Cmd("resize2fs /dev/sda1", "warn_only", "") >>

\* setup_oracle_user lines 224-241
setup_oracle_user ==
    << Cmd("mkdir -p /home/oracle/.ssh/", "warn_only", ""),
       Cmd("cp authorized_keys", "warn_only", ""),
       Cmd("chown -R oracle:oinstall /home/oracle/.ssh/", "warn_only", ""),
       Cmd("chmod -R 700 /home/oracle/.ssh/", "warn_only", ""),
       Cmd("chmod 600 authorized_keys", "warn_only", ""),
       Cmd("echo ORACLE_HOME", "warn_only", ""),
       Cmd("echo ORACLE_BASE", "warn_only", ""),
       Cmd("echo ORACLE_SID", "warn_only", ""),
       Cmd("echo ORACLE_UNQNAME", "warn_only", ""),
       Cmd("echo PATH", "warn_only", ""),
       Cmd("echo export", "warn_only", "") >>

\* disable_software_firewall lines 243-249
disable_software_firewall_cmds ==
    << Cmd("chkconfig iptables off", "warn_only", ""),
       Cmd("service iptables stop", "warn_only", "") >>

\* setup_db_reqs lines 251-275
setup_db_reqs_cmds ==
    setup_oracle_user
    \o << Cmd("mkdir -p /u01/install", "warn_only", ""),
          Cmd("groupadd oper", "warn_only", ""),
          Cmd("exists tar", "exists", ""),
          Cmd("wget", "warn_only", ""),
          Cmd("tar xzf", "warn_only", ""),
          Cmd("chown -R oracle:oinstall /u01", "warn_only", ""),
          Cmd("chmod -R 775 /u01", "warn_only", "") >>

\* install_db lines 286-296
install_db_cmds ==
    << Cmd("hostname", "abort", ""),
       Cmd("upload database.rsp", "abort", ""),
       Cmd("rm -f ./nohup.out", "warn_only", ""),
       Cmd("nohup ./runInstaller", "warn_only", "") >>

\* install_db_post lines 335-341
install_db_post_cmds ==
    << Cmd("orainstRoot.sh", "warn_only", ""),
       Cmd("root.sh", "warn_only", "") >>

\* create_listener lines 343-352
create_listener_cmds ==
    << Cmd("upload netca.rsp", "abort", ""),
       Cmd("netca -silent", "warn_only", "") >>

\* create_database lines 354-363
create_database_cmds ==
    << Cmd("upload dbca.rsp", "abort", ""),
       Cmd("dbca -silent", "warn_only", "") >>

\* lines 268-269: wget is skipped when the archive is there
NextIp(c, failed) == IF c.mode = "exists" /\ ~failed THEN ip + 2 ELSE ip + 1

\* one command of the task at label: it ends the run, or the task goes on, or the
\* task is through and control passes to donePc
RunCommands(label, task, cmds, donePc) ==
    /\ pc = label
    /\ \E failed \in BOOLEAN :
         LET c == cmds[ip]
             o == Outcome(c.mode, failed)
         IN  /\ issued' = Append(issued, c.cmd)
             /\ lastCmd' = Ran(c, failed)
             /\ IF o # "returns"
                THEN /\ Fail(IF o = "raises" THEN c.err ELSE "FabricAbort")
                     /\ UNCHANGED <<ip, completed, stepFails>>
                ELSE /\ error' = error
                     /\ stepFails' = IF failed THEN stepFails + 1 ELSE stepFails
                     /\ IF NextIp(c, failed) > Len(cmds)
                        THEN /\ pc' = donePc
                             /\ ip' = ip
                             /\ completed' = IF donePc = "post_launch"
                                             THEN Append(completed, task)
                                             ELSE completed
                        ELSE /\ pc' = pc
                             /\ ip' = NextIp(c, failed)
                             /\ completed' = completed
    /\ UNCHANGED <<launchVars, plIndex, trace, env_host, prevFailed, oracle_log,
                   discoverFetches, tailFetches, yumVars, installerVars>>

(***************************************************************************)
(* post_launch                                                             *)
(***************************************************************************)
Step(task, host) == [task |-> task, host |-> host]

\* post_launch lines 365-392, in statement order
PostLaunchStatements ==
    << Step("resize_root", "host_string"),
       Step("disable_software_firewall", "host_string"),
       Step("yum_upgrade_reboot", "host_string"),
       Step("enroll_oel", "host_string"),
       Step("yum_install", "host_string"),
       Step("setup_db_reqs", "host_string"),
       Step("install_db", "host_string_oracle"),
       Step("install_db_post", "host_string"),
       Step("create_listener", "host_string_oracle"),
       Step("create_database", "host_string_oracle") >>

\* line 376
UpgradeNeverSkipped(step, skip) == FALSE
UpdatesSkipped(step, skip) == step.task \in {"yum_upgrade_reboot", "enroll_oel"} /\ skip
Guarded(step, skip) == step.task = "yum_upgrade_reboot" /\ skip

PostLaunchSteps(skip) == SelectSeq(PostLaunchStatements, LAMBDA s : ~Guarded(s, skip))

\* the hosts=[...] argument of a statement
RootEverywhere(s, root, oracle) == root
HostsOf(s, root, oracle) == IF s.host = "host_string" THEN root ELSE oracle

\* execute(task, hosts=[...]) for the next statement, or the end of post_launch
post_launch ==
    /\ pc = "post_launch"
    /\ LET steps == PostLaunchSteps(skip_updates) IN
       IF plIndex = Len(steps)
       THEN /\ pc' = "done"
            /\ UNCHANGED <<plIndex, trace, env_host, ip, issued, stepFails, prevFailed>>
       ELSE LET s == steps[plIndex + 1]
                h == HostsOf(s, host_string, host_string_oracle)
            IN  /\ plIndex' = plIndex + 1
                /\ trace' = Append(trace, <<s.task, h>>)
                /\ env_host' = h
                /\ pc' = s.task
                /\ ip' = 1
                /\ issued' = << >>
                /\ prevFailed' = (stepFails > 0)
                /\ stepFails' = 0
    /\ UNCHANGED <<error, launchVars, completed, lastCmd, oracle_log,
                   discoverFetches, tailFetches, yumVars, installerVars>>

resize_root == RunCommands("resize_root", "resize_root", resize_root_cmds, "post_launch")

disable_software_firewall ==
    RunCommands("disable_software_firewall", "disable_software_firewall",
                disable_software_firewall_cmds, "post_launch")

yum_upgrade_reboot ==
    RunCommands("yum_upgrade_reboot", "yum_upgrade_reboot", yum_upgrade_reboot_cmds,
                "post_launch")

enroll_oel == RunCommands("enroll_oel", "enroll_oel", enroll_oel_cmds, "post_launch")

\* a task returns to post_launch when execute(...) called it, and ends the run
\* when it was invoked by name
Return == IF trace = << >> THEN "done" ELSE "post_launch"

\* yum_install lines 151-162: the list is read from the file when none was passed
Unbound == "unbound"
Packages == {"gcc", "make", "sysstat"}
PackageLists == UNION {[1..n -> Packages] : n \in 0..MaxPkgs}
Rows(list) == [i \in 1..Len(list) |-> <<list[i]>>]
RequirementsFile == Rows(<<"gcc", "sysstat">>)
Elements(list) == {list[i] : i \in 1..Len(list)}

OverrideIgnored(arg, rows) == arg \o [i \in 1..Len(rows) |-> rows[i][1]]
PackageList(arg, rows) ==
    IF Len(arg) = 0 THEN arg \o [i \in 1..Len(rows) |-> rows[i][1]] ELSE arg

LoopVariable(arg, rows) ==
    IF Len(arg) = 0 /\ Len(rows) > 0 THEN rows[Len(rows)][1] ELSE Unbound

\* line 165: ' '.join(package_list)
RECURSIVE Join(_)
Join(list) ==
    IF Len(list) = 0 THEN << >>
    ELSE IF Len(list) = 1 THEN <<list[1]>>
    ELSE <<list[1], " ">> \o Join(Tail(list))

\* lines 166-167: the message is formatted from the loop variable
InstallError(err, pkg) == IF pkg = Unbound THEN "UnboundLocalError" ELSE err

yum_install ==
    /\ pc = "yum_install"
    /\ LET c == yum_install_cmds(FALSE)[ip]
           list == PackageList(override, requirements)
       IN  \E failed \in BOOLEAN :
           \E bad \in (IF failed THEN SUBSET Elements(list) ELSE {{}}) :
             /\ package_list' = list
             /\ package' = LoopVariable(override, requirements)
             /\ installArgs' = Join(list)
             /\ failing' = bad
             /\ issued' = Append(issued, c.cmd)
             /\ lastCmd' = Ran(c, failed)
             /\ IF Outcome(c.mode, failed) # "returns"
                THEN /\ Fail(InstallError(c.err, package'))
                     /\ completed' = completed
                ELSE /\ pc' = Return
                     /\ error' = error
                     /\ completed' = Append(completed, "yum_install")
    /\ UNCHANGED <<launchVars, plIndex, trace, env_host, ip, stepFails, prevFailed,
                   oracle_log, discoverFetches, tailFetches, requirements, override,
                   installerVars>>

setup_db_reqs ==
    RunCommands("setup_db_reqs", "setup_db_reqs", setup_db_reqs_cmds, "post_launch")

install_db == RunCommands("install_db", "install_db", install_db_cmds, "install_db_discover")

LogPath == "/u01/app/oraInventory/logs/installActions.log"
Marker == "INFO: Unloading Setup Driver"
NoMarker == "no marker"

\* the installer, started by line 296, writes the marker to its log when it is done
InstallerFinishes ==
    /\ pc \in {"install_db_discover", "install_db_tail"}
    /\ ~logHasMarker
    /\ logHasMarker' = TRUE
    /\ UNCHANGED <<pc, error, launchVars, plIndex, trace, completed, env_host, ip, issued,
                   stepFails, prevFailed, lastCmd, oracle_log, discoverFetches,
                   tailFetches, yumVars, oracle_log_buffer, discoverSlept>>

\* install_db lines 298-314: the nohup.out loop
GetNohup == Cmd("get nohup.out", "abort", "")
DiscoverSleep == 5

\* lines 306-309
KeepsFetching(matched) == FALSE
BreakOnMatch(matched) == matched

\* lines 313-314: the missing log is printed, nothing is raised
AbortsWithoutLog(log) == IF log = None THEN "failed" ELSE "install_db_tail"
AfterDiscovery(log) == "install_db_tail"

install_db_discover ==
    /\ pc = "install_db_discover"
    /\ IF discoverFetches = DiscoverAttempts
       THEN /\ pc' = AfterDiscovery(oracle_log)
            /\ error' = IF pc' = "failed" THEN "InstallerLogNotFound" ELSE error
            /\ UNCHANGED <<lastCmd, issued, oracle_log, discoverFetches, discoverSlept>>
       ELSE \E r \in {"get_failed", "match", "no_match"} :
              /\ discoverFetches' = discoverFetches + 1
              /\ issued' = Append(issued, GetNohup.cmd)
              /\ lastCmd' = Ran(GetNohup, r = "get_failed")
              /\ CASE r = "get_failed" ->
                        /\ Fail("FabricAbort")
                        /\ UNCHANGED <<oracle_log, discoverSlept>>
                   [] r = "match" ->
                        /\ oracle_log' = LogPath
                        /\ pc' = IF BreakOnMatch(TRUE) THEN AfterDiscovery(oracle_log')
                                  ELSE pc
                        /\ error' = IF pc' = "failed" THEN "InstallerLogNotFound" ELSE error
                        /\ discoverSlept' = discoverSlept
                   [] OTHER ->
                        /\ discoverSlept' = discoverSlept + DiscoverSleep
                        /\ UNCHANGED <<pc, error, oracle_log>>
    /\ UNCHANGED <<launchVars, plIndex, trace, completed, env_host, ip, stepFails,
                   prevFailed, tailFetches, yumVars, logHasMarker, oracle_log_buffer>>

\* install_db lines 316-333: the log tailing loop
GetLog == Cmd("get oracle_log", "abort", "")
TailLog == Cmd("tail oracle_log", "warn_only", "")

\* line 319
WhileBounded(fetches) == fetches < 1
WhileTrue(fetches) == TRUE

\* line 325
MarkerIgnored(buffer) == TRUE
HasMarker(buffer) == buffer = Marker

install_db_tail ==
    /\ pc = "install_db_tail"
    /\ IF oracle_log = None
       THEN /\ Fail("GetNone")
            /\ lastCmd' = Ran(GetLog, TRUE)
            /\ issued' = Append(issued, GetLog.cmd)
            /\ UNCHANGED <<completed, tailFetches, stepFails, oracle_log_buffer>>
       ELSE IF ~WhileTrue(tailFetches)
       THEN /\ pc' = Return
            /\ completed' = Append(completed, "install_db")
            /\ UNCHANGED <<error, lastCmd, issued, tailFetches, stepFails,
                           oracle_log_buffer>>
       ELSE /\ logHasMarker \/ tailFetches < MaxTail
            /\ tailFetches' = tailFetches + 1
            /\ \E got \in BOOLEAN :
                 IF ~got
                 THEN /\ Fail("FabricAbort")
                      /\ lastCmd' = Ran(GetLog, TRUE)
                      /\ issued' = Append(issued, GetLog.cmd)
                      /\ UNCHANGED <<completed, stepFails, oracle_log_buffer>>
                 ELSE /\ oracle_log_buffer' = IF logHasMarker THEN Marker ELSE NoMarker
                      /\ IF HasMarker(oracle_log_buffer')
                         THEN /\ pc' = Return
                              /\ completed' = Append(completed, "install_db")
                              /\ lastCmd' = Ran(GetLog, FALSE)
                              /\ issued' = Append(issued, GetLog.cmd)
                              /\ UNCHANGED <<error, stepFails>>
                         ELSE /\ \E failed \in BOOLEAN :
                                   /\ stepFails' = IF failed THEN stepFails + 1
                                                    ELSE stepFails
                                   /\ lastCmd' = Ran(TailLog, failed)
                              /\ issued' = issued \o <<GetLog.cmd, TailLog.cmd>>
                              /\ UNCHANGED <<pc, error, completed>>
    /\ UNCHANGED <<launchVars, plIndex, trace, env_host, ip, prevFailed, oracle_log,
                   discoverFetches, yumVars, logHasMarker, discoverSlept>>

install_db_post ==
    RunCommands("install_db_post", "install_db_post", install_db_post_cmds, "post_launch")

create_listener ==
    RunCommands("create_listener", "create_listener", create_listener_cmds, "post_launch")

create_database ==
    RunCommands("create_database", "create_database", create_database_cmds, "post_launch")

(***************************************************************************)
(* Specification                                                           *)
(***************************************************************************)
Init ==
    /\ pc = "check_security_group"
    /\ skip_updates \in BOOLEAN
    /\ cloudGroup \in BOOLEAN
    /\ security_group_found = FALSE
    /\ listings = << >>
    /\ calls = [op \in ApiOps |-> 0]
    /\ instance = NoInstance
    /\ set_tags = FALSE
    /\ tagLog = << >>
    /\ iterations = 0
    /\ slept = 0
    /\ sshOpts = NoProbe
    /\ sshLog = << >>
    /\ ssh_ret = "none"
    /\ hostFile = OldHost
    /\ hostWrites = 0
    /\ host_string = NoHost
    /\ host_string_oracle = NoHost
    /\ error = "none"
    /\ plIndex = 0
    /\ trace = << >>
    /\ completed = << >>
    /\ env_host = OldHost
    /\ ip = 0
    /\ issued = << >>
    /\ stepFails = 0
    /\ prevFailed = FALSE
    /\ lastCmd = NoCmd
    /\ oracle_log = None
    /\ discoverFetches = 0
    /\ tailFetches = 0
    /\ requirements = RequirementsFile
    /\ override = << >>
    /\ package_list = << >>
    /\ package = Unbound
    /\ installArgs = << >>
    /\ failing = {}
    /\ logHasMarker = FALSE
    /\ oracle_log_buffer = ""
    /\ discoverSlept = 0

Next ==
    \/ CheckSecurityGroup
    \/ EnvCreateGroup
    \/ create_security_group
    \/ sg_create
    \/ sg_authorize
    \/ RunInstances
    \/ WhilePending
    \/ TrySetTags
    \/ SleepUpdate
    \/ CheckRunning
    \/ FlushAndWait
    \/ TestSsh
    \/ SshConnect
    \/ CheckSsh
    \/ SetHost
    \/ post_launch
    \/ resize_root
    \/ disable_software_firewall
    \/ yum_upgrade_reboot
    \/ enroll_oel
    \/ yum_install
    \/ setup_db_reqs
    \/ install_db
    \/ install_db_discover
    \/ install_db_tail
    \/ InstallerFinishes
    \/ install_db_post
    \/ create_listener
    \/ create_database

Spec == Init /\ [][Next]_vars

\* the variables of launch_instance and post_launch when a task is invoked by name
NoLaunch ==
    /\ skip_updates = FALSE
    /\ cloudGroup = FALSE
    /\ security_group_found = FALSE
    /\ listings = << >>
    /\ calls = [op \in ApiOps |-> 0]
    /\ instance = NoInstance
    /\ set_tags = FALSE
    /\ tagLog = << >>
    /\ iterations = 0
    /\ slept = 0
    /\ sshOpts = NoProbe
    /\ sshLog = << >>
    /\ ssh_ret = "none"
    /\ hostFile = OldHost
    /\ hostWrites = 0
    /\ host_string = NoHost
    /\ host_string_oracle = NoHost
    /\ error = "none"
    /\ plIndex = 0
    /\ trace = << >>
    /\ completed = << >>
    /\ env_host = OldHost
    /\ ip = 1
    /\ issued = << >>
    /\ stepFails = 0
    /\ prevFailed = FALSE
    /\ lastCmd = NoCmd
    /\ logHasMarker = FALSE
    /\ oracle_log_buffer = ""
    /\ discoverSlept = 0

\* fab yum_install, with or without a package list, on the host of hosts.txt
InitYum ==
    /\ pc = "yum_install"
    /\ NoLaunch
    /\ oracle_log = None
    /\ discoverFetches = 0
    /\ tailFetches = 0
    /\ requirements \in {Rows(l) : l \in PackageLists}
    /\ override \in PackageLists
    /\ package_list = override
    /\ package = Unbound
    /\ installArgs = << >>
    /\ failing = {}

NextYum == yum_install

YumSpec == InitYum /\ [][NextYum]_vars

\* fab install_db on the host of hosts.txt; the loops of install_db run on
InitInstall ==
    /\ pc = "install_db"
    /\ NoLaunch
    /\ oracle_log = None
    /\ discoverFetches = 0
    /\ tailFetches = 0
    /\ requirements = RequirementsFile
    /\ override = << >>
    /\ package_list = << >>
    /\ package = Unbound
    /\ installArgs = << >>
    /\ failing = {}

NextInstall ==
    \/ install_db
    \/ install_db_discover
    \/ install_db_tail
    \/ InstallerFinishes

\* launch_instance is sequential: the loop test and the check after the loop are
\* taken whenever control is at them
FairSpec == Spec /\ WF_vars(WhilePending) /\ WF_vars(CheckRunning)

FairInstall == InitInstall /\ [][NextInstall]_vars /\ WF_vars(install_db_tail)

(***************************************************************************)
(* Properties                                                              *)
(***************************************************************************)
Last(s) == s[Len(s)]
IsPrefix(s, t) == Len(s) <= Len(t) /\ \A i \in 1..Len(s) : s[i] = t[i]
Begun == [i \in 1..Len(trace) |-> trace[i][1]]
InPollLoop == pc \in {"while_pending", "try_tags", "sleep_update", "check_running"}
NoProbeIssued == sshOpts = NoProbe /\ sshLog = << >> /\ ssh_ret = "none"
HostRecordUntouched == hostWrites = 0 /\ hostFile = OldHost /\ host_string = NoHost
NoPostLaunchStep == trace = << >> /\ plIndex = 0 /\ issued = << >> /\ lastCmd = NoCmd

\* C1: once the fetched instance state is neither "pending" nor "running", the run
\* can only be about to fail or have failed with the instance-state error; no
\* readiness probe was issued, hosts.txt was not written and no post-launch step ran.
C1_NotRunningFails ==
    instance.state \in InstanceStates \ {"pending", "running"} =>
        /\ pc \in {"while_pending", "check_running", "failed"}
        /\ pc = "failed" => error = "InstanceNotRunning"
        /\ NoProbeIssued
        /\ HostRecordUntouched
        /\ NoPostLaunchStep

C1_Witness ==
    /\ pc = "failed"
    /\ error = "InstanceNotRunning"
    /\ calls["update"] > 0
    /\ instance.state = "terminated"

\* C2: a probe that used all 20 connection attempts without a successful one has
\* failed, and after a failed probe the run has ended with the unreachable-host
\* error, hosts.txt unwritten and no post-launch step executed.
C2_ProbeExhaustedFails ==
    /\ (Len(sshLog) = 20 /\ \A i \in 1..Len(sshLog) : sshLog[i] # "session_ok")
          => ssh_ret = "failed"
    /\ (ssh_ret = "failed" /\ pc # "check_ssh") =>
          /\ pc = "failed"
          /\ error = "SshUnreachable"
          /\ HostRecordUntouched
          /\ NoPostLaunchStep

C2_Witness ==
    /\ pc = "failed"
    /\ error = "SshUnreachable"
    /\ Len(sshLog) = 20
    /\ \A i \in 1..Len(sshLog) : sshLog[i] = "no_connection"

\* the order of steps C3 states, by task name
C3_Order(skip) ==
    << "resize_root", "disable_software_firewall" >>
    \o (IF skip THEN << >> ELSE << "yum_upgrade_reboot" >>)
    \o << "enroll_oel", "yum_install", "setup_db_reqs", "install_db",
          "install_db_post", "create_listener", "create_database" >>

\* C3: the steps of post_launch begin in the order ResizeRoot, DisableFirewall,
\* UpgradeAndReboot (only without skip_updates), EnrollRepository, InstallPackages,
\* SetupUserAndPaths, RunInstaller, RunPostInstallScripts, CreateListener,
\* CreateDatabase; a step begins only when all steps before it have returned, no
\* step begins twice, and a run that reaches the end has gone through all of them.
C3_StepsInOrder ==
    /\ IsPrefix(Begun, C3_Order(skip_updates))
    /\ IsPrefix(completed, Begun)
    /\ Len(Begun) <= Len(completed) + 1
    /\ pc = "post_launch" => completed = Begun
    /\ pc = "done" => completed = C3_Order(skip_updates)

C3_Witness ==
    /\ pc = "done"
    /\ ~skip_updates
    /\ Len(trace) = 10

\* the strict commands C4 names: <<task, command, error raised>>
C4_StrictCommands ==
    { <<"yum_upgrade_reboot", "yum -y --skip-broken upgrade", "YumUpgrade">>,
      <<"enroll_oel", "yum -y makecache", "YumUpdate">>,
      <<"yum_install", "yum -y install", "YumInstall">> }

\* C4: when the upgrade of UpgradeAndReboot, the cache refresh of EnrollRepository
\* or the install of InstallPackages has failed, the run has ended with that
\* command's error in that step: the command was issued once, it is the last one
\* issued, and the step has not returned, so no later step ever began.
C4_StrictFailureEndsRun ==
    \A sc \in C4_StrictCommands :
        (trace # << >> /\ Last(Begun) = sc[1] /\ lastCmd.cmd = sc[2] /\ lastCmd.failed) =>
            /\ pc = "failed"
            /\ error = sc[3]
            /\ Last(issued) = sc[2]
            /\ Cardinality({i \in 1..Len(issued) : issued[i] = sc[2]}) = 1
            /\ Len(completed) = Len(Begun) - 1

C4_Witness ==
    /\ pc = "failed"
    /\ error = "YumInstall"
    /\ Last(Begun) = "yum_install"
    /\ lastCmd.failed

\* the best-effort steps C5 names, and all the commands of each
C5_BestEffort == {"resize_root", "disable_software_firewall", "setup_db_reqs"}

C5_AllCommands(task) ==
    CASE task = "resize_root" -> { <<"resize2fs /dev/sda1">> }
      [] task = "disable_software_firewall" ->
            { <<"chkconfig iptables off", "service iptables stop">> }
      [] task = "setup_db_reqs" ->
            LET head == <<"mkdir -p /home/oracle/.ssh/", "cp authorized_keys",
                          "chown -R oracle:oinstall /home/oracle/.ssh/",
                          "chmod -R 700 /home/oracle/.ssh/", "chmod 600 authorized_keys",
                          "echo ORACLE_HOME", "echo ORACLE_BASE", "echo ORACLE_SID",
                          "echo ORACLE_UNQNAME", "echo PATH", "echo export",
                          "mkdir -p /u01/install", "groupadd oper", "exists tar">>
                rest == <<"tar xzf", "chown -R oracle:oinstall /u01", "chmod -R 775 /u01">>
            IN  { head \o <<"wget">> \o rest, head \o rest }

\* C5: a failed command of ResizeRoot, DisableFirewall or SetupUserAndPaths never
\* ends the run; whatever failed, the step issues all of its commands (the download
\* only when the archive is missing) before it returns, and the next step begins.
C5_BestEffortNeverAborts ==
    /\ (trace # << >> /\ Last(Begun) \in C5_BestEffort /\ lastCmd.failed) =>
          (pc # "failed" /\ error = "none")
    /\ (pc = "post_launch" /\ completed # << >> /\ Last(completed) \in C5_BestEffort) =>
          /\ issued \in C5_AllCommands(Last(completed))
          /\ error = "none"
    /\ (pc = "setup_db_reqs" /\ lastCmd.cmd = "exists tar" /\ lastCmd.failed) =>
          ip = 15
    /\ \A t \in C5_BestEffort :
          (\E i \in 1..Len(Begun) : Begun[i] = t /\ i < Len(Begun)) =>
              \E j \in 1..Len(completed) : completed[j] = t

C5_Witness ==
    /\ pc = "install_db"
    /\ prevFailed
    /\ Last(Begun) = "install_db"
    /\ issued # << >>

C7_CheckThenCreate ==
    /\ calls["create_security_group"] > 0 =>
          (listings # << >> /\ \A i \in 1..Len(listings) : ~listings[i])
    /\ calls["create_security_group"] <= 1
    /\ (Len(listings) = 2 /\ listings[2]) =>
          /\ pc = "failed"
          /\ error = "SecurityGroupExists"
          /\ calls["create_security_group"] = 0
          /\ calls["authorize"] = 0
          /\ calls["run_instances"] = 0
    /\ calls["run_instances"] <= 1
    /\ calls["run_instances"] = 1 =>
          /\ cloudGroup
          /\ Last(listings) \/ calls["authorize"] = 2
    /\ pc = "run_instances" => cloudGroup

C7_Witness ==
    /\ pc = "failed"
    /\ error = "SecurityGroupExists"
    /\ listings = <<FALSE, TRUE>>

\* C8: hosts.txt is written at most once in a run, not before the instance is
\* "running" and the probe has succeeded, and before the first post-launch step;
\* what is written is root@<public address of the launched instance>, and it stays
\* whatever happens in the post-launch steps.
C8_HostRecordWrittenOnce ==
    /\ hostWrites <= 1
    /\ hostWrites = 0 => (hostFile = OldHost /\ NoPostLaunchStep)
    /\ hostWrites = 1 =>
          /\ instance.state = "running"
          /\ ssh_ret = "succeeded"
          /\ calls["run_instances"] = 1
          /\ hostFile = <<"root", "@", instance.public_dns_name>>

C8_Witness ==
    /\ pc = "failed"
    /\ trace # << >>
    /\ hostWrites = 1
    /\ hostFile = <<"root", "@", "ec2-a">>

\* C9: a failed tagging call never ends the run: every loop body that was entered
\* goes on to the state update, the run fails in the loop only with the
\* instance-state error and exactly when the state is not "running", as it does
\* when tagging succeeds, and no tagging call follows a successful one.
C9_TaggingFailureIgnored ==
    /\ error # "EC2ResponseError: create_tags"
    /\ calls["update"] = IF pc \in {"try_tags", "sleep_update"}
                         THEN iterations - 1 ELSE iterations
    /\ (calls["run_instances"] = 1 /\ ~InPollLoop) =>
          ((instance.state # "running") <=> (pc = "failed" /\ error = "InstanceNotRunning"))
    /\ \A i \in 1..Len(tagLog) : tagLog[i] => i = Len(tagLog)

C9_Witness ==
    /\ pc = "test_ssh"
    /\ Len(tagLog) >= 2
    /\ \A i \in 1..Len(tagLog) : ~tagLog[i]

\* C10 as claimed: at most two tagging calls are made in a run.
C10_AtMostTwoTagCalls == Len(tagLog) <= 2

\* C10 as amended: a tagging call is made in every body of the pending loop until
\* one succeeds and in none after that, so the calls are as many as the loop
\* bodies entered while the instance was untagged, and exactly one when the first
\* call succeeds.
C10_TagRetriedEveryPoll ==
    /\ Len(tagLog) = calls["create_tags"]
    /\ Len(tagLog) <= iterations
    /\ ~set_tags => Len(tagLog) = (IF pc = "try_tags" THEN iterations - 1 ELSE iterations)
    /\ set_tags <=> (tagLog # << >> /\ Last(tagLog))
    /\ \A i \in 1..Len(tagLog) : tagLog[i] => i = Len(tagLog)
    /\ (tagLog # << >> /\ tagLog[1]) => Len(tagLog) = 1

C10_Witness ==
    /\ Len(tagLog) = 3
    /\ set_tags
    /\ pc = "test_ssh"

\* the list yum_install is asked to install: the argument, else the file's names
Requested ==
    IF override # << >> THEN override
    ELSE [i \in 1..Len(requirements) |-> requirements[i][1]]

\* C11: for a package list of length >= 1, passed as argument or read from the
\* file, yum_install has issued exactly one install command, its arguments are the
\* list's elements in order separated by single spaces, and the task succeeded
\* exactly when that command did not fail.
C11_OneInstallCommand ==
    (pc # "yum_install" /\ Len(Requested) >= 1) =>
        /\ issued = <<"yum -y install">>
        /\ lastCmd.cmd = "yum -y install"
        /\ Len(installArgs) = 2 * Len(Requested) - 1
        /\ \A i \in 1..Len(Requested) : installArgs[2 * i - 1] = Requested[i]
        /\ \A i \in 1..(Len(Requested) - 1) : installArgs[2 * i] = " "
        /\ pc \in {"done", "failed"}
        /\ pc = "done" <=> ~lastCmd.failed

C11_Witness ==
    /\ pc = "done"
    /\ override = <<"make", "gcc">>
    /\ requirements = Rows(<<"sysstat">>)
    /\ installArgs = <<"make", " ", "gcc">>
    /\ ~lastCmd.failed

\* the first element of the list that yum could not install
FirstFailing(list, bad) ==
    list[CHOOSE i \in 1..Len(list) :
            list[i] \in bad /\ \A j \in 1..(i - 1) : list[j] \notin bad]

\* C12: when the install command failed on some package, the task has raised the
\* package-install error and the error names the first failing package of the list.
C12_ErrorNamesFirstFailing ==
    (pc = "failed" /\ lastCmd.cmd = "yum -y install" /\ failing # {}) =>
        /\ error = "YumInstall"
        /\ package = FirstFailing(package_list, failing)

CurrentTask == IF trace = << >> THEN "" ELSE Last(Begun)

\* C13 as stated: the first command yum_upgrade_reboot issues is the cache refresh.
C13_CacheRefreshedFirst ==
    (CurrentTask = "yum_upgrade_reboot" /\ issued # << >>) =>
        issued[1] = "yum -y makecache"

\* C13: yum_upgrade_reboot issues no cache refresh: it resolves pending
\* transactions, then upgrades, then reboots, in that order; a failed upgrade ends
\* the run with the upgrade error before the reboot and before any later step.
C13_UpgradeWithoutRefresh ==
    CurrentTask = "yum_upgrade_reboot" =>
        /\ IsPrefix(issued, <<"yum-complete-transaction -y", "package-cleanup --problems",
                              "yum -y --skip-broken upgrade", "reboot">>)
        /\ (lastCmd.cmd = "yum -y --skip-broken upgrade" /\ lastCmd.failed) =>
              /\ pc = "failed"
              /\ error = "YumUpgrade"
              /\ Len(issued) = 3
        /\ pc = "failed" => lastCmd.cmd \in {"yum -y --skip-broken upgrade", "reboot"}

C13_Witness ==
    /\ CurrentTask = "yum_upgrade_reboot"
    /\ pc = "failed"
    /\ error = "YumUpgrade"
    /\ issued = <<"yum-complete-transaction -y", "package-cleanup --problems",
                  "yum -y --skip-broken upgrade">>

\* C14: install_db has returned only after a fetched copy of the installer log held
\* the completion marker, and install_db_post, create_listener and create_database
\* have been started only after install_db returned that way.
C14_MarkerBeforePostInstall ==
    /\ (\E i \in 1..Len(completed) : completed[i] = "install_db") =>
          /\ oracle_log_buffer = Marker
          /\ logHasMarker
    /\ \A i \in 1..Len(Begun) :
          Begun[i] \in {"install_db_post", "create_listener", "create_database"} =>
              /\ \E j \in 1..Len(completed) : completed[j] = "install_db"
              /\ oracle_log_buffer = Marker

C14_Witness ==
    /\ pc = "create_database"
    /\ tailFetches = 2
    /\ oracle_log_buffer = Marker

\* C15: when all six fetches of nohup.out went by without a match, install_db has
\* not failed for the missing log: it is about to enter, or is in, the tailing loop
\* with oracle_log None, or it has failed in the first get of the tailing loop.
C15_MissingLogGoesOn ==
    (CurrentTask = "install_db" /\ discoverSlept = DiscoverAttempts * DiscoverSleep) =>
        /\ oracle_log = None
        /\ discoverFetches = DiscoverAttempts
        /\ tailFetches = 0
        /\ \/ pc \in {"install_db_discover", "install_db_tail"} /\ error = "none"
           \/ /\ pc = "failed"
              /\ error = "GetNone"
              /\ Last(issued) = GetLog.cmd
              /\ lastCmd = Ran(GetLog, TRUE)

C15_Witness ==
    /\ pc = "install_db_tail"
    /\ oracle_log = None
    /\ discoverFetches = DiscoverAttempts
    /\ error = "none"

\* C16: the tailing loop is left by returning only when the fetched copy held the
\* marker; a pass without the marker in the log, whatever its number, stays in the
\* loop unless the get itself failed; and once the marker is in the log the loop is
\* eventually left, by install_db returning or by a failed get.
C16_TailUntilMarker ==
    /\ []((\E i \in 1..Len(completed) : completed[i] = "install_db")
             => oracle_log_buffer = Marker)
    /\ [][(pc = "install_db_tail" /\ ~logHasMarker /\ tailFetches' # tailFetches) =>
             \/ pc' = "install_db_tail" /\ error' = "none"
             \/ pc' = "failed" /\ error' = "FabricAbort" /\ lastCmd' = Ran(GetLog, TRUE)]_vars
    /\ (pc = "install_db_tail" /\ oracle_log # None /\ logHasMarker)
          ~> (pc = "done" \/ (pc = "failed" /\ lastCmd = Ran(GetLog, TRUE)))

C16_Witness ==
    /\ pc = "install_db_tail"
    /\ tailFetches = 2
    /\ oracle_log_buffer = NoMarker
    /\ ~logHasMarker
    /\ error = "none"

Positions(seq, x) == {i \in 1..Len(seq) : seq[i] = x}

\* C19: in install_db the response file is uploaded before the installer is
\* launched, the installer is launched once, nohup.out is fetched at most six
\* times, five seconds are slept after every fetch without a match, and no fetch
\* follows the one that matched.
C19_DiscoveryBounded ==
    CurrentTask = "install_db" =>
        LET launches == Positions(issued, "nohup ./runInstaller")
            uploads == Positions(issued, "upload database.rsp")
            fetches == Positions(issued, GetNohup.cmd)
            unmatched == IF oracle_log # None \/ lastCmd = Ran(GetNohup, TRUE)
                         THEN discoverFetches - 1 ELSE discoverFetches
        IN  /\ \A l \in launches : \E u \in uploads : u < l
            /\ Cardinality(launches) <= 1
            /\ pc \in {"install_db_discover", "install_db_tail"} => Cardinality(launches) = 1
            /\ \A f \in fetches : \E l \in launches : l < f
            /\ Cardinality(fetches) = discoverFetches
            /\ discoverFetches <= 6
            /\ discoverSlept = 5 * unmatched
            /\ oracle_log # None => pc # "install_db_discover"

C19_Witness ==
    /\ pc = "install_db_tail"
    /\ oracle_log = LogPath
    /\ discoverFetches = 6
    /\ discoverSlept = 25
    /\ tailFetches = 0

OracleTasks == {"install_db", "create_listener", "create_database"}
AccountOf(task) == IF task \in OracleTasks THEN "oracle" ELSE "root"

\* C17: every execute(...) of post_launch names the account of its task, oracle for
\* install_db, create_listener and create_database and root for the others, on the
\* public DNS name of the instance launched in this run, and the commands of the
\* task go to that host string.
C17_StepsOnLaunchedInstance ==
    /\ \A i \in 1..Len(trace) :
          trace[i][2] = <<AccountOf(trace[i][1]), "@", instance.public_dns_name>>
    /\ trace # << >> =>
          /\ instance.state = "running"
          /\ env_host = Last(trace)[2]
          /\ env_host # OldHost

C17_Witness ==
    /\ pc = "done"
    /\ Len(trace) = 10
    /\ instance.public_dns_name = "ec2-a"
    /\ env_host = <<"oracle", "@", "ec2-a">>

C18_Others == SelectSeq(Begun, LAMBDA t : t # "yum_upgrade_reboot")
C18_UpgradeCommands ==
    {"yum-complete-transaction -y", "package-cleanup --problems",
     "yum -y --skip-broken upgrade", "reboot"}

\* C18: the steps other than yum_upgrade_reboot are the same nine, in the same
\* order and on the same accounts, whatever skip_updates is; yum_upgrade_reboot is
\* the third step when skip_updates is false, and with skip_updates true it is
\* never executed and no upgrade or reboot command is issued.
C18_SkipOnlyDropsUpgrade ==
    /\ IsPrefix(C18_Others,
                <<"resize_root", "disable_software_firewall", "enroll_oel", "yum_install",
                  "setup_db_reqs", "install_db", "install_db_post", "create_listener",
                  "create_database">>)
    /\ \A i \in 1..Len(trace) : trace[i][2][1] = AccountOf(trace[i][1])
    /\ skip_updates =>
          /\ C18_Others = Begun
          /\ \A i \in 1..Len(issued) : issued[i] \notin C18_UpgradeCommands
    /\ ~skip_updates =>
          /\ \A i \in 1..Len(Begun) : Begun[i] = "yum_upgrade_reboot" <=> i = 3
          /\ pc = "done" => Len(Begun) = 10
    /\ CurrentTask # "yum_upgrade_reboot" =>
          \A i \in 1..Len(issued) : issued[i] \notin C18_UpgradeCommands
    /\ pc = "done" => Len(C18_Others) = 9

C18_Witness ==
    /\ pc = "done"
    /\ skip_updates
    /\ Len(trace) = 9

\* C20: while the fetched state is "pending" the run is inside the polling loop,
\* has slept 10 s before each re-fetch and nothing else, and has issued no probe and
\* no post-launch step; a loop test that finds "pending" always enters the body
\* again, whatever the number of passes; and once the fetched state is no longer
\* "pending" the run eventually fails with the instance-state error or goes on to
\* the readiness wait.
C20_PollWhilePending ==
    /\ [](instance.state = "pending" =>
            /\ pc \in {"while_pending", "try_tags", "sleep_update"}
            /\ error = "none"
            /\ slept = 10 * calls["update"]
            /\ NoProbeIssued
            /\ HostRecordUntouched
            /\ NoPostLaunchStep)
    /\ [][/\ (pc = "while_pending" /\ instance.state = "pending") => pc' = "try_tags"
          /\ calls'["update"] # calls["update"] =>
                /\ slept' = slept + 10
                /\ instance.state = "pending"]_vars
    /\ (pc = "while_pending" /\ instance.state # "pending")
          ~> \/ pc = "failed" /\ error = "InstanceNotRunning"
             \/ pc = "flush_known_hosts" /\ instance.state = "running"

C20_Witness ==
    /\ pc = "while_pending"
    /\ instance.state = "pending"
    /\ calls["update"] = 2
    /\ iterations = 2
    /\ slept = 20
====
